---- MODULE Spec2Model ----
(***************************************************************************)
(* Model of the to-do list front end: the request client                   *)
(* (src/todo_frontend/src/api/todos.js) and the App component's state and  *)
(* handlers (src/todo_frontend/src/App.js), together with a small remote   *)
(* to-do service the requests are sent to.                                 *)
(***************************************************************************)
EXTENDS Integers, Sequences, FiniteSets, TLC

VARIABLES
    todos,          \* useState([])            App.js:28
    initialLoading, \* useState(true)          App.js:29
    savingIds,      \* useState(new Set())     App.js:30
    error,          \* useState(null)          App.js:31
    newTitle,       \* useState("")            App.js:33
    editingId,      \* useState(null)          App.js:35
    editingTitle,   \* useState("")            App.js:36
    calls,          \* the async handlers suspended at an await, with their request
    server,         \* the remote service's records
    nextId,         \* the remote service's next fresh identifier
    variant,        \* the field names the remote service uses for its records
    clock,          \* Date.now()
    started,        \* number of user events so far (bounded)
    ev,             \* the last step taken (history, read by the properties only)
    clean,          \* every remote call settled so far succeeded with a well-formed
                    \* payload (history, read by the properties only)
    view,           \* the state values of the last render: what the displayed controls
                    \* and the handlers' closures hold
    normIn,         \* input of normalizeTodo in the SpecNormalize specification
    normOut,        \* its result
    reqIn,          \* the exchange fetchJson goes through in the SpecFetchJson specification
    reqOut          \* how fetchJson settles

vars == <<todos, initialLoading, savingIds, error, newTitle, editingId, editingTitle,
          calls, server, nextId, variant, clock, started, ev, clean, view, normIn, normOut,
          reqIn, reqOut>>

----------------------------------------------------------------------------
(* Bounds of the model *)

MaxEvents == 3
MaxInFlight == 2
MaxClock == 1

----------------------------------------------------------------------------
(* JavaScript values: undefined, null, booleans, numbers and strings (a     *)
(* string is a sequence of characters).                                     *)

Undefined == [k |-> "undefined", n |-> 0, s |-> <<>>]
Null == [k |-> "null", n |-> 0, s |-> <<>>]
Bool(b) == [k |-> "boolean", n |-> IF b THEN 1 ELSE 0, s |-> <<>>]
Num(n) == [k |-> "number", n |-> n, s |-> <<>>]
Str(s) == [k |-> "string", n |-> 0, s |-> s]

Nullish(v) == v.k \in {"undefined", "null"}

\* Boolean(v) / truthiness
Truthy(v) ==
    CASE v.k = "undefined" -> FALSE
      [] v.k = "null" -> FALSE
      [] v.k = "boolean" -> v.n = 1
      [] v.k = "number" -> v.n # 0
      [] OTHER -> v.s # <<>>

\* a ?? b
Coalesce(a, b) == IF Nullish(a) THEN b ELSE a

\* a || b
OrElse(a, b) == IF Truthy(a) THEN a ELSE b

\* String.prototype.trim on a sequence of characters
RECURSIVE TrimLeft(_)
TrimLeft(s) == IF s # <<>> /\ Head(s) = " " THEN TrimLeft(Tail(s)) ELSE s

RECURSIVE TrimRight(_)
TrimRight(s) ==
    IF s # <<>> /\ s[Len(s)] = " " THEN TrimRight(SubSeq(s, 1, Len(s) - 1)) ELSE s

\* The title tested without trimming it
TrimNone(s) == s

Trim(s) == TrimRight(TrimLeft(s))

Digits == <<"0", "1", "2", "3", "4", "5", "6", "7", "8", "9">>

\* String(n) for a natural number n
RECURSIVE NumToString(_)
NumToString(n) ==
    IF n < 10 THEN <<Digits[n + 1]>> ELSE Append(NumToString(n \div 10), Digits[(n % 10) + 1])

\* `${v}` / String(v), as used when an id is interpolated into a path
JsString(v) ==
    CASE v.k = "undefined" -> <<"undefined">>
      [] v.k = "null" -> <<"null">>
      [] v.k = "boolean" -> IF v.n = 1 THEN <<"true">> ELSE <<"false">>
      [] v.k = "number" -> NumToString(v.n)
      [] OTHER -> v.s

----------------------------------------------------------------------------
(* Raw records as the remote service sends them.  A field that is absent    *)
(* reads as undefined; o tells an object from null and from a text payload. *)

EmptyRaw == [o |-> "object", id |-> Undefined, todo_id |-> Undefined, _id |-> Undefined,
             title |-> Undefined, text |-> Undefined, completed |-> Undefined,
             is_completed |-> Undefined, done |-> Undefined]
NullRaw == [EmptyRaw EXCEPT !.o = "null"]
TextRaw == [EmptyRaw EXCEPT !.o = "string"]

\* raw?.f
Get(raw, f) == IF raw.o = "object" THEN raw[f] ELSE Undefined

\* normalizeTodo with || in place of ?? for the completion fields
normalizeTodoOr(raw) ==
    [id |-> Coalesce(Coalesce(Get(raw, "id"), Get(raw, "todo_id")), Get(raw, "_id")),
     title |-> Coalesce(Coalesce(Get(raw, "title"), Get(raw, "text")), Str(<<>>)),
     completed |-> Truthy(OrElse(OrElse(Get(raw, "completed"), Get(raw, "is_completed")),
                                 Get(raw, "done"))),
     raw |-> raw]

normalizeTodo(raw) ==
    [id |-> Coalesce(Coalesce(Get(raw, "id"), Get(raw, "todo_id")), Get(raw, "_id")),
     title |-> Coalesce(Coalesce(Get(raw, "title"), Get(raw, "text")), Str(<<>>)),
     completed |-> Truthy(Coalesce(Coalesce(Get(raw, "completed"), Get(raw, "is_completed")),
                                   Get(raw, "done"))),
     raw |-> raw]

----------------------------------------------------------------------------
(* Payloads: what res.json() / res.text() yields.  An object payload holds  *)
(* its to-do fields in rec, and its detail / items / todos properties.      *)

NoArr == [isArr |-> FALSE, arr |-> <<>>]
Arr(a) == [isArr |-> TRUE, arr |-> a]

NullPayload == [k |-> "null", text |-> <<>>, arr |-> <<>>, detail |-> Undefined,
                items |-> NoArr, todos |-> NoArr, rec |-> NullRaw]
TextPayload(t) == [NullPayload EXCEPT !.k = "string", !.text = t, !.rec = TextRaw]
ArrayPayload(a) == [NullPayload EXCEPT !.k = "array", !.arr = a, !.rec = EmptyRaw]
ObjectPayload(r) == [NullPayload EXCEPT !.k = "object", !.rec = r]

\* The remote service's record as it appears on the wire, in the service's field names.
EncodeRec(v, r, withId) ==
    CASE v = "std" ->
           [EmptyRaw EXCEPT !.id = IF withId THEN r.id ELSE Undefined,
                            !.title = Str(r.title), !.completed = Bool(r.completed)]
      [] v = "alt" ->
           [EmptyRaw EXCEPT !.todo_id = IF withId THEN r.id ELSE Undefined,
                            !.text = Str(r.title), !.is_completed = Bool(r.completed)]
      [] OTHER ->
           [EmptyRaw EXCEPT !._id = IF withId THEN r.id ELSE Undefined,
                            !.title = Str(r.title), !.done = Bool(r.completed)]

EncodeList(v, data) == [i \in 1..Len(data) |-> EncodeRec(v, data[i], TRUE)]

NoResp == [ok |-> FALSE, status |-> 0, isJson |-> FALSE, shape |-> "none",
           data |-> <<>>, withId |-> FALSE]

DetailText == <<"Todo not found">>
BodyText == <<"Internal Server Error">>

\* The text of a body that holds JSON
JsonText == <<"{json}">>

\* The decoded body of a response (todos.js:31, when the read is not cut short): res.json()
\* when the content type says JSON, with a body that is not JSON decoded as null by
\* .catch(() => null), and res.text() otherwise
BodyPayload(v, resp) ==
    IF resp.isJson
    THEN CASE resp.shape = "array" -> ArrayPayload(EncodeList(v, resp.data))
           [] resp.shape = "items" ->
                [ObjectPayload(EmptyRaw) EXCEPT !.items = Arr(EncodeList(v, resp.data))]
           [] resp.shape = "todos" ->
                [ObjectPayload(EmptyRaw) EXCEPT !.todos = Arr(EncodeList(v, resp.data))]
           [] resp.shape = "other" -> ObjectPayload(EmptyRaw)
           [] resp.shape = "record" ->
                ObjectPayload(EncodeRec(v, resp.data[1], resp.withId))
           [] resp.shape = "detail" ->
                [ObjectPayload(EmptyRaw) EXCEPT !.detail = Str(DetailText)]
           [] resp.shape = "emptyDetail" ->
                [ObjectPayload(EmptyRaw) EXCEPT !.detail = Str(<<>>)]
           [] OTHER -> NullPayload
    ELSE CASE resp.shape = "text" -> TextPayload(BodyText)
           [] resp.shape = "empty" -> TextPayload(<<>>)
           [] OTHER -> TextPayload(JsonText)

----------------------------------------------------------------------------
(* The request client, todos.js *)

NoError == [message |-> Undefined, hasStatus |-> FALSE, status |-> 0, payload |-> NullPayload]

Resolved(p) == [ok |-> TRUE, payload |-> p, err |-> NoError]
Rejected(e) == [ok |-> FALSE, payload |-> NullPayload, err |-> e]

TimeoutMessage == Str(<<"Request timed out. Please try again.">>)
NetworkMessage == Str(<<"Failed to fetch">>)
StatusMessage(n) == Str(<<"Request failed with status ">> \o NumToString(n))

\* todos.js:45-49: an AbortError becomes the timed-out error, anything else is rethrown
fetchJsonCatch(name, e) ==
    IF name = "AbortError"
    THEN Rejected([NoError EXCEPT !.message = TimeoutMessage])
    ELSE Rejected(e)

\* The generic message whatever the payload holds
errorMessageGeneric(resp, payload) == StatusMessage(resp.status)

\* todos.js:34-37
errorMessage(resp, payload) ==
    OrElse(OrElse(IF payload.k = "object" THEN payload.detail ELSE Bool(FALSE),
                  IF payload.k = "string" THEN Str(payload.text) ELSE Bool(FALSE)),
           StatusMessage(resp.status))

\* todos.js:33-44
fetchJsonStatus(resp, payload) ==
    IF ~resp.ok
    THEN fetchJsonCatch("Error", [message |-> Str(JsString(errorMessage(resp, payload))),
                                  hasStatus |-> TRUE, status |-> resp.status,
                                  payload |-> payload])
    ELSE Resolved(payload)

\* todos.js:29-44, once fetch has resolved with a response: reading the body, which is
\* cut short when the timer aborts the request first.  res.json() then rejects and
\* .catch(() => null) turns the rejection into a null payload; res.text() rejects with
\* the AbortError.
fetchJsonBody(v, resp, aborted) ==
    IF resp.isJson
    THEN fetchJsonStatus(resp, IF aborted THEN NullPayload ELSE BodyPayload(v, resp))
    ELSE IF aborted
         THEN fetchJsonCatch("AbortError", NoError)
         ELSE fetchJsonStatus(resp, BodyPayload(v, resp))

\* todos.js:20, fetch itself rejecting: aborted by the timer, or a network failure
fetchJsonFetchRejected(aborted) ==
    IF aborted
    THEN fetchJsonCatch("AbortError", NoError)
    ELSE fetchJsonCatch("TypeError", [NoError EXCEPT !.message = NetworkMessage])

\* App.js:19-23 (e is an Error here: never falsy, never a string)
toErrorMessage(e) == OrElse(e.message, Str(<<"Something went wrong">>))

----------------------------------------------------------------------------
(* The App component's state updates, App.js *)

NoId == Undefined

\* App.js:50
refreshArr(res) ==
    IF res.k = "array" THEN res.arr
    ELSE IF res.k = "object" /\ res.items.isArr THEN res.items.arr
    ELSE IF res.k = "object" /\ res.todos.isArr THEN res.todos.arr
    ELSE <<>>

\* Whether the payload has one of the three shapes the list call may return
KnownShape(res) ==
    \/ res.k = "array"
    \/ res.k = "object" /\ (res.items.isArr \/ res.todos.isArr)

HasId(t) == t.id # Undefined /\ t.id # Null

\* App.js:51
refreshTodos(arr) == SelectSeq([i \in 1..Len(arr) |-> normalizeTodo(arr[i])], HasId)

\* The id added whatever the flag says
setSavingAddOnly(prev, id, isSaving) == prev \cup {id}

\* The loading flag cleared only when the list call succeeded
refreshFinallyOnSuccess(prev, out) == IF out.ok THEN FALSE ELSE prev

\* App.js:54-56, setInitialLoading(false) in refresh()'s finally block
refreshFinally(prev, out) == FALSE

\* App.js:63-70
setSaving(prev, id, isSaving) == IF isSaving THEN prev \cup {id} ELSE prev \ {id}

\* App.js:84
tempIdAt(now) == Str(<<"temp-">> \o NumToString(now))

\* App.js:85-86
addOptimistic(prev, tempId, title) ==
    <<[id |-> tempId, title |-> Str(title), completed |-> FALSE, raw |-> NullRaw]>> \o prev

\* The authoritative task put first and the placeholder filtered out
addReplacePrepend(prev, tempId, normalized) ==
    <<normalized>> \o SelectSeq(prev, LAMBDA t : t.id # tempId)

\* App.js:92-94
addReplace(prev, tempId, normalized) ==
    [i \in 1..Len(prev) |-> IF prev[i].id = tempId THEN normalized ELSE prev[i]]

\* The optimistic flip left out
toggleOptimisticNone(prev, id, nextCompleted) == prev

\* App.js:115-117
toggleOptimistic(prev, id, nextCompleted) ==
    [i \in 1..Len(prev) |->
        IF prev[i].id = id THEN [prev[i] EXCEPT !.completed = nextCompleted] ELSE prev[i]]

\* App.js:154
editOptimistic(prev, id, title) ==
    [i \in 1..Len(prev) |->
        IF prev[i].id = id THEN [prev[i] EXCEPT !.title = Str(title)] ELSE prev[i]]

\* App.js:177
deleteOptimistic(prev, id) == SelectSeq(prev, LAMBDA t : t.id # id)

\* The rollback left out
deleteRollbackNone(prev, before) == prev

\* App.js:183
deleteRollback(prev, before) == before

\* App.js:189-191, called while rendering (App.js:275) with the render's savingIds
isSaving(todoId) == todoId \in view.savingIds

----------------------------------------------------------------------------
(* The remote service *)

\* `/todos/${encodeURIComponent(id)}` (todos.js:70, 79): the id as the path names it
PathOf(id) == JsString(id)

Matches(r, path) == ~Nullish(r.id) /\ JsString(r.id) = path

Found(path) == \E k \in 1..Len(server) : Matches(server[k], path)

ListShapes == {"array", "items", "todos", "other", "text"}

OkResp(json, shape, data, withId) ==
    [ok |-> TRUE, status |-> 200, isJson |-> json, shape |-> shape, data |-> data,
     withId |-> withId]

ErrResp(status, json, shape) ==
    [ok |-> FALSE, status |-> status, isJson |-> json, shape |-> shape, data |-> <<>>,
     withId |-> FALSE]

\* Failures the service may answer any request with
ErrorResponses == {ErrResp(500, FALSE, "text")}

NotFound == ErrResp(404, TRUE, "detail")

\* The services the model starts with: the field names each uses, and its records
InitialServices ==
    { [variant |-> "std", server |-> <<>>],
      [variant |-> "alt", server |-> <<[id |-> Num(1), title |-> <<"a">>, completed |-> FALSE],
                                       [id |-> Num(2), title |-> <<"b">>, completed |-> TRUE]>>],
      [variant |-> "mongo", server |-> <<[id |-> Num(0), title |-> <<"a">>, completed |-> FALSE],
                                         [id |-> Null, title |-> <<"b">>, completed |-> TRUE]>>] }

----------------------------------------------------------------------------
(* Async handlers suspended at an await *)

NoCall == [op |-> "none", req |-> "none", pc |-> "fetch", origin |-> "none",
           todoId |-> NoId, tempId |-> NoId, title |-> <<>>, completed |-> FALSE,
           before |-> <<>>, index |-> 0, n |-> 0, resp |-> NoResp, failed |-> FALSE,
           fresh |-> TRUE]

RefreshCall(origin) == [NoCall EXCEPT !.op = "refresh", !.req = "list", !.origin = origin]

Without(i) == [j \in 1..(Len(calls) - 1) |-> IF j < i THEN calls[j] ELSE calls[j + 1]]

NoTask == [id |-> NoId, title |-> Undefined, completed |-> FALSE, raw |-> NullRaw]

NoEv == [type |-> "init", op |-> "none", id |-> NoId, index |-> 0, task |-> NoTask,
         aborted |-> FALSE, outcome |-> "none", known |-> TRUE, failed |-> FALSE,
         did |-> FALSE, fresh |-> TRUE]

OutcomeKind(out) ==
    IF out.ok THEN "resolved"
    ELSE IF out.err.hasStatus THEN "status"
    ELSE IF out.err.message = TimeoutMessage THEN "timeout"
    ELSE "network"

CanCall == Len(calls) < MaxInFlight

TitleInputs == {<<" ">>, <<" ", "c">>}

\* The rows on display (App.js:274)
Rows == 1..Len(view.todos)

\* One execution of App() (App.js:26-36, 193-365) with the given state values
Rendering(t, l, s, n, e, et) ==
    [todos |-> t, initialLoading |-> l, savingIds |-> s, newTitle |-> n, editingId |-> e,
     editingTitle |-> et]

\* The component re-renders with the state the step leaves
Rerender ==
    view' = Rendering(todos', initialLoading', savingIds', newTitle', editingId',
                      editingTitle')

\* After a user event the component re-renders, unless the next event is dispatched in
\* the same task, before the re-render
MayRerender == Rerender \/ view' = view

\* The handlers run with the values of the current state: no event has been handled
\* since the last render
Fresh == view = Rendering(todos, initialLoading, savingIds, newTitle, editingId, editingTitle)

UserEvent == started < MaxEvents /\ started' = started + 1

NotNormalized == [done |-> FALSE, todo |-> NoTask]

NoExchange == [stage |-> "none", resp |-> NoResp, aborted |-> FALSE]
NotSettled == [done |-> FALSE, out |-> Rejected(NoError)]

----------------------------------------------------------------------------
(* State after construction: App.js:28-36, and the mount effect's refresh()  *)
(* (App.js:59-61) suspended at its await.                                    *)

Init ==
    /\ todos = <<>>
    /\ initialLoading = TRUE
    /\ savingIds = {}
    /\ error = Null
    /\ newTitle = <<>>
    /\ editingId = Null
    /\ editingTitle = <<>>
    /\ calls = <<RefreshCall("mount")>>
    /\ \E svc \in InitialServices : server = svc.server /\ variant = svc.variant
    /\ nextId = 3
    /\ clock = 0
    /\ started = 0
    /\ ev = NoEv
    /\ clean = TRUE
    /\ view = Rendering(<<>>, TRUE, {}, <<>>, Null, <<>>)
    /\ normIn = NullRaw
    /\ normOut = NotNormalized
    /\ reqIn = NoExchange
    /\ reqOut = NotSettled

NormUnchanged == UNCHANGED <<normIn, normOut, reqIn, reqOut>>
CleanUnchanged == UNCHANGED clean
ServerUnchanged == UNCHANGED <<server, nextId, variant>>

----------------------------------------------------------------------------
(* User events *)

UiEv == [NoEv EXCEPT !.type = "ui"]

\* App.js:215-223, onChange of the add input (disabled while isBusy)
SetNewTitle(s) ==
    /\ UserEvent
    /\ ~view.initialLoading
    /\ newTitle' = s
    /\ ev' = UiEv
    /\ UNCHANGED <<todos, initialLoading, savingIds, error, editingId, editingTitle,
                   calls, clock>>
    /\ ServerUnchanged /\ NormUnchanged /\ CleanUnchanged
    /\ MayRerender

\* App.js:46-49, refresh() up to its await; the Refresh button is disabled while
\* initialLoading (App.js:249)
refresh ==
    /\ UserEvent
    /\ ~view.initialLoading
    /\ CanCall
    /\ error' = Null
    /\ calls' = Append(calls, RefreshCall("user"))
    /\ ev' = [NoEv EXCEPT !.type = "refresh", !.op = "refresh", !.did = TRUE]
    /\ UNCHANGED <<todos, initialLoading, savingIds, newTitle, editingId, editingTitle, clock>>
    /\ ServerUnchanged /\ NormUnchanged /\ CleanUnchanged
    /\ MayRerender

\* App.js:75-89, handleAdd up to its await (the form is disabled while isBusy,
\* App.js:222-227).  now is the value Date.now() returns, never less than the last one.
handleAdd(now) ==
    /\ UserEvent
    /\ ~view.initialLoading
    /\ LET title == Trim(view.newTitle)
           tempId == tempIdAt(now)
       IN IF title = <<>>
          THEN /\ ev' = [NoEv EXCEPT !.type = "handleAdd", !.op = "add"]
               /\ UNCHANGED <<todos, error, newTitle, calls, clock>>
          ELSE /\ CanCall
               /\ error' = Null
               /\ todos' = addOptimistic(todos, tempId, title)
               /\ newTitle' = <<>>
               /\ calls' = Append(calls, [NoCall EXCEPT !.op = "add", !.req = "create",
                                             !.tempId = tempId, !.title = title,
                                             !.n = Len(todos) + 1, !.fresh = Fresh])
               /\ clock' = now
               /\ ev' = [NoEv EXCEPT !.type = "handleAdd", !.op = "add", !.id = tempId,
                                     !.did = TRUE]
    /\ UNCHANGED <<initialLoading, savingIds, editingId, editingTitle>>
    /\ ServerUnchanged /\ NormUnchanged /\ CleanUnchanged
    /\ MayRerender

\* App.js:106-120, handleToggle(todos[r]) up to its await (the checkbox is rendered
\* once loaded and disabled while the row is saving, App.js:255, 280-286)
handleToggle(r) ==
    /\ UserEvent
    /\ ~view.initialLoading
    /\ ~isSaving(view.todos[r].id)
    /\ LET todo == view.todos[r]
           nextCompleted == ~todo.completed
       IN IF ~Truthy(todo.id)
          THEN /\ ev' = [NoEv EXCEPT !.type = "handleToggle", !.op = "toggle",
                                     !.id = todo.id, !.index = r]
               /\ UNCHANGED <<todos, error, savingIds, calls>>
          ELSE /\ CanCall
               /\ error' = Null
               /\ savingIds' = setSaving(savingIds, todo.id, TRUE)
               /\ todos' = toggleOptimistic(todos, todo.id, nextCompleted)
               /\ calls' = Append(calls, [NoCall EXCEPT !.op = "toggle", !.req = "update",
                                             !.todoId = todo.id, !.index = r,
                                             !.completed = nextCompleted,
                                             !.fresh = Fresh])
               /\ ev' = [NoEv EXCEPT !.type = "handleToggle", !.op = "toggle",
                                     !.id = todo.id, !.index = r, !.did = TRUE]
    /\ UNCHANGED <<initialLoading, newTitle, editingId, editingTitle, clock>>
    /\ ServerUnchanged /\ NormUnchanged /\ CleanUnchanged
    /\ MayRerender

\* App.js:131-135 (the Edit button shows on a row that is not being edited and is
\* disabled while the row is saving, App.js:338-345)
startEdit(r) ==
    /\ UserEvent
    /\ ~view.initialLoading
    /\ ~isSaving(view.todos[r].id)
    /\ view.editingId # view.todos[r].id
    /\ editingId' = view.todos[r].id
    /\ editingTitle' = view.todos[r].title.s
    /\ ev' = UiEv
    /\ UNCHANGED <<todos, initialLoading, savingIds, error, newTitle, calls, clock>>
    /\ ServerUnchanged /\ NormUnchanged /\ CleanUnchanged
    /\ MayRerender

\* App.js:293-298, onChange of the edit input of row r
SetEditingTitle(r, s) ==
    /\ UserEvent
    /\ ~view.initialLoading
    /\ ~isSaving(view.todos[r].id)
    /\ view.editingId = view.todos[r].id
    /\ editingTitle' = s
    /\ ev' = UiEv
    /\ UNCHANGED <<todos, initialLoading, savingIds, error, newTitle, editingId, calls,
                   clock>>
    /\ ServerUnchanged /\ NormUnchanged /\ CleanUnchanged
    /\ MayRerender

\* App.js:138-142 (Cancel button or Escape on the row being edited, App.js:299-301,
\* 326-333)
cancelEdit(r) ==
    /\ UserEvent
    /\ ~view.initialLoading
    /\ ~isSaving(view.todos[r].id)
    /\ view.editingId = view.todos[r].id
    /\ editingId' = Null
    /\ editingTitle' = <<>>
    /\ ev' = UiEv
    /\ UNCHANGED <<todos, initialLoading, savingIds, error, newTitle, calls, clock>>
    /\ ServerUnchanged /\ NormUnchanged /\ CleanUnchanged
    /\ MayRerender

\* App.js:145-157, saveEdit(todos[r]) up to its await (the Save button shows on the row
\* being edited, App.js:318-325)
saveEdit(r) ==
    /\ UserEvent
    /\ ~view.initialLoading
    /\ ~isSaving(view.todos[r].id)
    /\ view.editingId = view.todos[r].id
    /\ LET todo == view.todos[r]
           title == Trim(view.editingTitle)
       IN IF title = <<>>
          THEN /\ ev' = [NoEv EXCEPT !.type = "saveEdit", !.op = "edit", !.id = todo.id,
                                     !.index = r]
               /\ UNCHANGED <<todos, error, savingIds, calls>>
          ELSE /\ CanCall
               /\ error' = Null
               /\ savingIds' = setSaving(savingIds, todo.id, TRUE)
               /\ todos' = editOptimistic(todos, todo.id, title)
               /\ calls' = Append(calls, [NoCall EXCEPT !.op = "edit", !.req = "update",
                                             !.todoId = todo.id, !.index = r,
                                             !.title = title, !.fresh = Fresh])
               /\ ev' = [NoEv EXCEPT !.type = "saveEdit", !.op = "edit", !.id = todo.id,
                                     !.index = r, !.did = TRUE]
    /\ UNCHANGED <<initialLoading, newTitle, editingId, editingTitle, clock>>
    /\ ServerUnchanged /\ NormUnchanged /\ CleanUnchanged
    /\ MayRerender

\* App.js:168-180, handleDelete(todos[r]) up to its await (the Delete button shows on a
\* row that is not being edited, App.js:346-353)
handleDelete(r) ==
    /\ UserEvent
    /\ ~view.initialLoading
    /\ ~isSaving(view.todos[r].id)
    /\ view.editingId # view.todos[r].id
    /\ LET todo == view.todos[r]
           before == view.todos
       IN IF ~Truthy(todo.id)
          THEN /\ ev' = [NoEv EXCEPT !.type = "handleDelete", !.op = "delete",
                                     !.id = todo.id, !.index = r]
               /\ UNCHANGED <<todos, error, savingIds, calls>>
          ELSE /\ CanCall
               /\ error' = Null
               /\ savingIds' = setSaving(savingIds, todo.id, TRUE)
               /\ todos' = deleteOptimistic(todos, todo.id)
               /\ calls' = Append(calls, [NoCall EXCEPT !.op = "delete", !.req = "delete",
                                             !.todoId = todo.id, !.index = r,
                                             !.before = before, !.fresh = Fresh])
               /\ ev' = [NoEv EXCEPT !.type = "handleDelete", !.op = "delete",
                                     !.id = todo.id, !.index = r, !.did = TRUE]
    /\ UNCHANGED <<initialLoading, newTitle, editingId, editingTitle, clock>>
    /\ ServerUnchanged /\ NormUnchanged /\ CleanUnchanged
    /\ MayRerender

----------------------------------------------------------------------------
(* The handlers' continuations, run when the awaited request settles with    *)
(* outcome out (aborted: the timer fired before the exchange completed).     *)

SettledEv(c, out, aborted) ==
    [NoEv EXCEPT !.type = "settled", !.op = c.op, !.id = c.todoId, !.index = c.index,
                 !.aborted = aborted, !.outcome = OutcomeKind(out),
                 !.failed = c.failed \/ ~out.ok, !.fresh = c.fresh]

\* App.js:49-56, refresh() from its await on; when handleToggle or saveEdit awaited it
\* (App.js:124, 161) their finally block follows (App.js:126, 163)
RefreshDone(i, out, aborted) ==
    LET c == calls[i] IN
    /\ c.req = "list"
    /\ todos' = IF out.ok THEN refreshTodos(refreshArr(out.payload)) ELSE todos
    /\ error' = IF out.ok THEN error ELSE toErrorMessage(out.err)
    /\ initialLoading' = refreshFinally(initialLoading, out)
    /\ savingIds' = IF c.op \in {"toggle", "edit"}
                    THEN setSaving(savingIds, c.todoId, FALSE)
                    ELSE savingIds
    /\ calls' = Without(i)
    /\ ev' = [SettledEv(c, out, aborted) EXCEPT
                 !.type = "refreshDone", !.known = ~out.ok \/ KnownShape(out.payload),
                 !.id = IF c.origin = "add" THEN c.tempId ELSE c.todoId,
                 !.did = c.origin = "add"]
    /\ UNCHANGED <<newTitle, editingId, editingTitle>>

\* App.js:89-102, handleAdd from its await on.  On failure setError(message) (line 99)
\* is followed in the same run by refresh() and its setError(null) (lines 101, 47).
AddDone(i, out, aborted) ==
    LET c == calls[i] IN
    /\ c.req = "create"
    /\ IF out.ok
       THEN /\ todos' = addReplace(todos, c.tempId, normalizeTodo(out.payload.rec))
            /\ calls' = Without(i)
            /\ error' = error
       ELSE /\ todos' = todos
            /\ error' = LET shown == toErrorMessage(out.err) IN Null
            /\ calls' = [calls EXCEPT ![i] = [RefreshCall("add") EXCEPT !.failed = TRUE,
                                                !.tempId = c.tempId]]
    /\ ev' = [SettledEv(c, out, aborted) EXCEPT
                 !.type = "addDone", !.id = c.tempId, !.index = c.n,
                 !.task = IF out.ok THEN normalizeTodo(out.payload.rec) ELSE NoTask]
    /\ UNCHANGED <<initialLoading, savingIds, newTitle, editingId, editingTitle>>

\* App.js:120-127 and 157-164, handleToggle and saveEdit from their await of updateTodo
\* on.  On failure setError(message) is followed in the same run by refresh() and its
\* setError(null); the handler then awaits that refresh.
UpdateDone(i, out, aborted) ==
    LET c == calls[i] IN
    /\ c.req = "update"
    /\ IF out.ok
       THEN /\ editingId' = IF c.op = "edit" THEN Null ELSE editingId
            /\ editingTitle' = IF c.op = "edit" THEN <<>> ELSE editingTitle
            /\ savingIds' = setSaving(savingIds, c.todoId, FALSE)
            /\ calls' = Without(i)
            /\ error' = error
       ELSE /\ error' = LET shown == toErrorMessage(out.err) IN Null
            /\ calls' = [calls EXCEPT ![i] = [c EXCEPT !.req = "list", !.pc = "fetch",
                                                !.resp = NoResp, !.failed = TRUE]]
            /\ UNCHANGED <<editingId, editingTitle, savingIds>>
    /\ ev' = [SettledEv(c, out, aborted) EXCEPT !.type = "updateDone"]
    /\ UNCHANGED <<todos, initialLoading, newTitle>>

\* App.js:180-186, handleDelete from its await on
DeleteDone(i, out, aborted) ==
    LET c == calls[i] IN
    /\ c.req = "delete"
    /\ todos' = IF out.ok THEN todos ELSE deleteRollback(todos, c.before)
    /\ error' = IF out.ok THEN error ELSE toErrorMessage(out.err)
    /\ savingIds' = setSaving(savingIds, c.todoId, FALSE)
    /\ calls' = Without(i)
    /\ ev' = [SettledEv(c, out, aborted) EXCEPT !.type = "deleteDone",
                                                !.task = c.before[c.index]]
    /\ UNCHANGED <<initialLoading, newTitle, editingId, editingTitle>>

\* The call settled as a success, with the payload its request is to be answered with
WellFormed(c, out, aborted) ==
    /\ out.ok /\ ~aborted
    /\ c.req = "list" => KnownShape(out.payload)
    /\ c.req = "create" => HasId(normalizeTodo(out.payload.rec))

Settle(i, out, aborted) ==
    /\ \/ RefreshDone(i, out, aborted)
       \/ AddDone(i, out, aborted)
       \/ UpdateDone(i, out, aborted)
       \/ DeleteDone(i, out, aborted)
    /\ Rerender
    /\ clean' = (clean /\ WellFormed(calls[i], out, aborted))
    /\ UNCHANGED <<clock, started>>
    /\ NormUnchanged

----------------------------------------------------------------------------
(* The exchange with the remote service, todos.js:16-52 *)

ServerUpdate(c, path) ==
    [k \in 1..Len(server) |->
        IF Matches(server[k], path)
        THEN IF c.op = "toggle" THEN [server[k] EXCEPT !.completed = c.completed]
                                ELSE [server[k] EXCEPT !.title = c.title]
        ELSE server[k]]

FirstMatch(path) == CHOOSE k \in 1..Len(server) : Matches(server[k], path)

ClientUnchanged == UNCHANGED <<todos, initialLoading, savingIds, error, newTitle, editingId,
                              editingTitle, clock, started>>

\* fetch resolves with the response (todos.js:20-30): the service has handled the
\* request, and the body is still to be read.
ServerRespond(i) ==
    LET c == calls[i]
        path == PathOf(c.todoId)
        answer(resp) == calls' = [calls EXCEPT ![i] = [c EXCEPT !.pc = "body", !.resp = resp]]
    IN
    /\ c.pc = "fetch"
    /\ \/ /\ c.req = "list"
          /\ \E shape \in ListShapes : answer(OkResp(shape # "text", shape, server, TRUE))
          /\ UNCHANGED <<server, nextId>>
       \/ /\ c.req = "create"
          /\ LET rec == [id |-> Num(nextId), title |-> c.title, completed |-> FALSE] IN
             /\ server' = Append(server, rec)
             /\ nextId' = nextId + 1
             /\ \E withId \in BOOLEAN : answer(OkResp(TRUE, "record", <<rec>>, withId))
       \/ /\ c.req = "update"
          /\ Found(path)
          /\ server' = ServerUpdate(c, path)
          /\ answer(OkResp(TRUE, "record", <<ServerUpdate(c, path)[FirstMatch(path)]>>, TRUE))
          /\ UNCHANGED nextId
       \/ /\ c.req = "delete"
          /\ Found(path)
          /\ server' = SelectSeq(server, LAMBDA r : ~Matches(r, path))
          /\ answer(OkResp(FALSE, "empty", <<>>, FALSE))
          /\ UNCHANGED nextId
       \/ /\ c.req \in {"update", "delete"}
          /\ ~Found(path)
          /\ answer(NotFound)
          /\ UNCHANGED <<server, nextId>>
       \/ /\ \E resp \in ErrorResponses : answer(resp)
          /\ UNCHANGED <<server, nextId>>
    /\ ev' = [NoEv EXCEPT !.type = "response", !.op = c.op, !.id = c.todoId]
    /\ ClientUnchanged
    /\ Rerender
    /\ UNCHANGED <<variant, clean>>
    /\ NormUnchanged

\* fetch rejects with a network failure (todos.js:20, 45-49)
FetchFails(i) ==
    /\ calls[i].pc = "fetch"
    /\ Settle(i, fetchJsonFetchRejected(FALSE), FALSE)
    /\ ServerUnchanged

\* The timer of todos.js:17 fires before the exchange has completed: while fetch is
\* awaited, or while the body is read.
TimerFires(i) ==
    /\ \/ /\ calls[i].pc = "fetch"
          /\ Settle(i, fetchJsonFetchRejected(TRUE), TRUE)
       \/ /\ calls[i].pc = "body"
          /\ Settle(i, fetchJsonBody(variant, calls[i].resp, TRUE), TRUE)
    /\ ServerUnchanged

\* The body is read in full (todos.js:31-44)
BodyRead(i) ==
    /\ calls[i].pc = "body"
    /\ Settle(i, fetchJsonBody(variant, calls[i].resp, FALSE), FALSE)
    /\ ServerUnchanged

----------------------------------------------------------------------------

Next ==
    \/ \E s \in TitleInputs : SetNewTitle(s)
    \/ refresh
    \/ \E now \in clock..MaxClock : handleAdd(now)
    \/ \E r \in Rows : handleToggle(r)
    \/ \E r \in Rows : startEdit(r)
    \/ \E r \in Rows : \E s \in TitleInputs : SetEditingTitle(r, s)
    \/ \E r \in Rows : cancelEdit(r)
    \/ \E r \in Rows : saveEdit(r)
    \/ \E r \in Rows : handleDelete(r)
    \/ \E i \in 1..Len(calls) : ServerRespond(i)
    \/ \E i \in 1..Len(calls) : FetchFails(i)
    \/ \E i \in 1..Len(calls) : TimerFires(i)
    \/ \E i \in 1..Len(calls) : BodyRead(i)

Spec == Init /\ [][Next]_vars

\* Every remote call returns or times out: a step of the exchange of some pending call
\* is eventually taken (fetch resolves or rejects, the body is read, or the timer of
\* todos.js:17 fires).
Network ==
    \E i \in 1..Len(calls) :
        ServerRespond(i) \/ FetchFails(i) \/ TimerFires(i) \/ BodyRead(i)

SpecLive == Init /\ [][Next]_vars /\ WF_vars(Network)

----------------------------------------------------------------------------
(* normalizeTodo on its own: every raw record of NormInputs is normalized.   *)

IdValues == {Undefined, Null, Num(0), Num(7)}
TitleValues == {Undefined, Null, Str(<<"x">>)}
FlagValues == {Undefined, Null, Bool(FALSE), Bool(TRUE)}

NormInputs ==
    {NullRaw, TextRaw} \cup
    { [o |-> "object", id |-> a, todo_id |-> b, _id |-> c, title |-> t, text |-> x,
       completed |-> d, is_completed |-> e, done |-> f] :
        a \in IdValues, b \in IdValues, c \in IdValues,
        t \in TitleValues, x \in TitleValues,
        d \in FlagValues, e \in FlagValues, f \in FlagValues }

NormInit ==
    /\ todos = <<>>
    /\ initialLoading = TRUE
    /\ savingIds = {}
    /\ error = Null
    /\ newTitle = <<>>
    /\ editingId = Null
    /\ editingTitle = <<>>
    /\ calls = <<>>
    /\ server = <<>>
    /\ nextId = 3
    /\ variant = "std"
    /\ clock = 0
    /\ started = 0
    /\ ev = NoEv
    /\ clean = TRUE
    /\ view = Rendering(<<>>, TRUE, {}, <<>>, Null, <<>>)
    /\ normIn \in NormInputs
    /\ normOut = NotNormalized
    /\ reqIn = NoExchange
    /\ reqOut = NotSettled

\* App.js:9-14 applied to normIn
Normalize ==
    /\ ~normOut.done
    /\ normOut' = [done |-> TRUE, todo |-> normalizeTodo(normIn)]
    /\ UNCHANGED <<todos, initialLoading, savingIds, error, newTitle, editingId,
                   editingTitle, calls, server, nextId, variant, clock, started, ev, clean,
                   view, normIn, reqIn, reqOut>>

NormNext == Normalize

SpecNormalize == NormInit /\ [][NormNext]_vars

----------------------------------------------------------------------------
(* fetchJson on its own: every exchange of FetchInputs is gone through.  An   *)
(* exchange ends while fetch is awaited (stage "fetch": network failure, or   *)
(* the timer when aborted) or once fetch has given a response (stage "body":  *)
(* the body read in full, or cut short by the timer when aborted).            *)

StatusValues == {200, 404, 500}
BodyShapes == {"detail", "emptyDetail", "other", "text", "empty"}

FetchInputs ==
    { [stage |-> "fetch", resp |-> NoResp, aborted |-> a] : a \in BOOLEAN } \cup
    { [stage |-> "body",
       resp |-> [ok |-> st = 200, status |-> st, isJson |-> j, shape |-> sh, data |-> <<>>,
                 withId |-> FALSE],
       aborted |-> a] :
        st \in StatusValues, j \in BOOLEAN, sh \in BodyShapes, a \in BOOLEAN }

FetchInit ==
    /\ todos = <<>>
    /\ initialLoading = TRUE
    /\ savingIds = {}
    /\ error = Null
    /\ newTitle = <<>>
    /\ editingId = Null
    /\ editingTitle = <<>>
    /\ calls = <<>>
    /\ server = <<>>
    /\ nextId = 3
    /\ variant = "std"
    /\ clock = 0
    /\ started = 0
    /\ ev = NoEv
    /\ clean = TRUE
    /\ view = Rendering(<<>>, TRUE, {}, <<>>, Null, <<>>)
    /\ normIn = NullRaw
    /\ normOut = NotNormalized
    /\ reqIn \in FetchInputs
    /\ reqOut = NotSettled

\* todos.js:7-53 applied to the exchange reqIn
FetchJson ==
    /\ ~reqOut.done
    /\ reqOut' = [done |-> TRUE,
                  out |-> IF reqIn.stage = "fetch"
                          THEN fetchJsonFetchRejected(reqIn.aborted)
                          ELSE fetchJsonBody(variant, reqIn.resp, reqIn.aborted)]
    /\ UNCHANGED <<todos, initialLoading, savingIds, error, newTitle, editingId,
                   editingTitle, calls, server, nextId, variant, clock, started, ev, clean,
                   view, normIn, normOut, reqIn>>

FetchNext == FetchJson

SpecFetchJson == FetchInit /\ [][FetchNext]_vars

----------------------------------------------------------------------------
(* Properties *)

ListRequests(cs) == Cardinality({i \in 1..Len(cs) : cs[i].req = "list"})

\* The list shows exactly the service's records that have an identifier, in order
ShowsServer(list, data) ==
    LET withIds == SelectSeq(data, LAMBDA r : ~Nullish(r.id)) IN
    /\ Len(list) = Len(withIds)
    /\ \A k \in 1..Len(withIds) :
          /\ list[k].id = withIds[k].id
          /\ list[k].title = Str(withIds[k].title)
          /\ list[k].completed = withIds[k].completed

\* The first value of the sequence that is neither null nor undefined, if any
HasPresent(vs) == \E k \in 1..Len(vs) : ~Nullish(vs[k])
FirstPresent(vs) ==
    vs[CHOOSE k \in 1..Len(vs) : ~Nullish(vs[k]) /\ \A j \in 1..(k - 1) : Nullish(vs[j])]

\* A title that is empty or holds only spaces
IsBlank(s) == \A k \in 1..Len(s) : s[k] = " "

\* C1: every task in the list has an id that is neither null nor undefined, also after a
\* create response whose record carries none of id / todo_id / _id has been handled.
\* (Stated for the states that follow a step in which no read was cut short by the
\* timer: what a cut-short read yields is C7's matter.)
C1_EveryTaskHasId == ~ev.aborted => \A r \in 1..Len(todos) : HasId(todos[r])

C3_DeleteRemovesThenRestores ==
    [][/\ (ev'.type = "handleDelete" /\ ev'.did) =>
             /\ \A r \in 1..Len(todos') : todos'[r].id # ev'.id
             /\ \E i \in 1..Len(calls') :
                   calls'[i].req = "delete" /\ calls'[i].pc = "fetch"
                   /\ calls'[i].todoId = ev'.id
       /\ (ev'.type = "deleteDone" /\ ev'.outcome # "resolved") =>
             /\ ev'.index \in 1..Len(todos')
             /\ todos'[ev'.index] = ev'.task
             /\ ev'.task.id = ev'.id]_vars

C3_Witness ==
    /\ ev.type = "deleteDone" /\ ev.outcome # "resolved"
    /\ ev.index = 2
    /\ Len(todos) >= 2 /\ todos[2] = ev.task

\* C4: when the remote call of an operation has failed, the error banner holds a message
\* once the operation, with the recovery Refresh it triggers, has finished.  (Stated for
\* operations whose last request was not cut short by the timer.)
C4_FailureShownWhenFinished ==
    (ev.type \in {"refreshDone", "deleteDone"} /\ ev.failed /\ ~ev.aborted) => error # Null

\* C5: Toggle sets the completed value of the task in the list, at once and with its
\* update call still unanswered, to the opposite of the value of the task it was called
\* with (the row on display); a failed update call of Toggle or Edit, or create call of
\* Add, starts
\* exactly one Refresh; a Refresh that receives the service's list replaces the whole
\* list by the service's records, so each task shows the service's title and completed.
C5_FlipThenResync ==
    [][/\ (ev'.type = "handleToggle" /\ ev'.did) =>
             /\ Len(todos') = Len(todos)
             /\ \A r \in 1..Len(todos) :
                   todos'[r] = IF todos[r].id = ev'.id
                               THEN [todos[r] EXCEPT
                                        !.completed = ~view.todos[ev'.index].completed]
                               ELSE todos[r]
             /\ \E i \in 1..Len(calls') :
                   calls'[i].req = "update" /\ calls'[i].pc = "fetch"
                   /\ calls'[i].todoId = ev'.id
       /\ (ev'.type \in {"updateDone", "addDone"} /\ ev'.outcome # "resolved") =>
             /\ ListRequests(calls') = ListRequests(calls) + 1
             /\ Len(calls') = Len(calls)
       /\ (ev'.type = "refreshDone" /\ ev'.outcome = "resolved" /\ ev'.known) =>
             \E i \in 1..Len(calls) :
                /\ calls[i].req = "list" /\ calls[i].pc = "body"
                /\ calls' = Without(i)
                /\ ShowsServer(todos', calls[i].resp.data)]_vars

C5_Witness ==
    /\ ev.type = "refreshDone" /\ ev.op = "toggle" /\ ev.outcome = "resolved" /\ ev.known
    /\ \E r \in 1..Len(todos) : todos[r].id = ev.id /\ ~todos[r].completed

\* C6: Add with an empty or whitespace-only title, and saveEdit with an empty or
\* whitespace-only edited title, issue no remote call and change nothing: list, banner,
\* in-flight set, input field and edit mode stay as they are.
C6_BlankTitleChangesNothing ==
    [][(\/ ev'.type = "handleAdd" /\ IsBlank(view.newTitle)
        \/ ev'.type = "saveEdit" /\ IsBlank(view.editingTitle)) =>
          UNCHANGED <<todos, initialLoading, savingIds, error, newTitle, editingId,
                      editingTitle, calls, server>>]_vars

C6_Witness ==
    /\ ev.type = "saveEdit" /\ ~ev.did
    /\ editingTitle = <<" ">>
    /\ editingId = ev.id /\ editingId # Null
    /\ calls = <<>>

\* C7: when the timeout fires before the exchange has completed, the call ends with the
\* timed-out error, never as a success nor as a status-code error.
C7_TimeoutAlwaysTimedOut == ev.aborted => ev.outcome = "timeout"

\* C8: when the list call returns a payload that is neither an array nor an object with
\* an array under items or todos, Refresh ends with an error in the banner.
C8_UnknownShapeIsError ==
    (ev.type = "refreshDone" /\ ev.outcome = "resolved" /\ ~ev.aborted /\ ~ev.known) =>
        error # Null

\* C9: Toggle or Delete on a task whose id is neither null nor undefined marks the id in
\* flight and issues the remote call.
C9_DefinedIdGoesAhead ==
    (ev.type \in {"handleToggle", "handleDelete"} /\ ~Nullish(ev.id)) =>
        /\ ev.id \in savingIds
        /\ \E i \in 1..Len(calls) :
              calls[i].todoId = ev.id /\ calls[i].req \in {"update", "delete"}

\* C10 (as stated): completed is true exactly when one of completed, is_completed, done
\* is truthy; id is the first of id, todo_id, _id that is neither null nor undefined;
\* title is the first such of title, text, else the empty string.
C10_AnyTruthyFlag ==
    normOut.done =>
        LET ids == <<Get(normIn, "id"), Get(normIn, "todo_id"), Get(normIn, "_id")>>
            titles == <<Get(normIn, "title"), Get(normIn, "text")>>
            flags == <<Get(normIn, "completed"), Get(normIn, "is_completed"),
                       Get(normIn, "done")>>
        IN /\ normOut.todo.completed = (\E k \in 1..3 : Truthy(flags[k]))
           /\ IF HasPresent(ids) THEN normOut.todo.id = FirstPresent(ids)
                                 ELSE Nullish(normOut.todo.id)
           /\ normOut.todo.title = IF HasPresent(titles) THEN FirstPresent(titles)
                                                         ELSE Str(<<>>)

\* C10 (amended): completed is true exactly when the first of completed, is_completed,
\* done that is neither null nor undefined is truthy (completed=false with done=true
\* gives false); id and title as stated.
C10_FirstPresentFlag ==
    normOut.done =>
        LET ids == <<Get(normIn, "id"), Get(normIn, "todo_id"), Get(normIn, "_id")>>
            titles == <<Get(normIn, "title"), Get(normIn, "text")>>
            flags == <<Get(normIn, "completed"), Get(normIn, "is_completed"),
                       Get(normIn, "done")>>
        IN /\ normOut.todo.completed = (HasPresent(flags) /\ Truthy(FirstPresent(flags)))
           /\ IF HasPresent(ids) THEN normOut.todo.id = FirstPresent(ids)
                                 ELSE Nullish(normOut.todo.id)
           /\ normOut.todo.title = IF HasPresent(titles) THEN FirstPresent(titles)
                                                         ELSE Str(<<>>)

C10_Witness ==
    /\ normOut.done
    /\ Get(normIn, "completed") = Bool(FALSE)
    /\ Get(normIn, "done") = Bool(TRUE)
    /\ Get(normIn, "id") = Null /\ Get(normIn, "todo_id") = Num(0)
    /\ normOut.todo.id = Num(0)
    /\ ~normOut.todo.completed

MountPending == \E i \in 1..Len(calls) : calls[i].origin = "mount"

\* C12: from startup until the initial Refresh has completed or failed the loading flag is
\* true and no Add, Toggle, Edit or Delete (nor any other user event) starts; the flag is
\* false from the step in which that Refresh completes or fails, which eventually happens
\* when the list call returns or times out, and it is never true again.
C12_LoadingUntilFirstRefresh ==
    /\ [](initialLoading <=> MountPending)
    /\ [](initialLoading => started = 0 /\ todos = <<>> /\ savingIds = {} /\ Len(calls) = 1)
    /\ [][(~initialLoading => ~initialLoading')
          /\ (initialLoading =>
                ev'.type \notin {"handleAdd", "handleToggle", "saveEdit", "handleDelete",
                                 "refresh", "ui"})
          /\ (MountPending /\ ev'.type = "refreshDone" => ~initialLoading')]_vars
    /\ <>(~initialLoading)

C12_Witness ==
    /\ ~initialLoading
    /\ ev.type = "refreshDone" /\ ev.outcome = "timeout"
    /\ started = 0 /\ calls = <<>>
    /\ error = TimeoutMessage

\* C13: when no operation is unfinished the in-flight set is empty, and, every remote
\* call returning or timing out, an id marked in flight by Toggle, Edit or Delete is
\* eventually cleared, whether the call succeeds or fails and whether the recovery
\* Refresh succeeds or fails.
C13_InFlightEventuallyCleared ==
    /\ [](calls = <<>> => savingIds = {})
    /\ [][(ev'.type \in {"updateDone", "deleteDone", "refreshDone"}
           /\ ev'.op \in {"toggle", "edit", "delete"}
           /\ Len(calls') < Len(calls)) => ev'.id \notin savingIds']_vars
    /\ (savingIds # {}) ~> (savingIds = {})

C13_Witness ==
    /\ ev.type = "refreshDone" /\ ev.op = "edit" /\ ev.outcome # "resolved"
    /\ savingIds = {} /\ calls = <<>>

\* A task whose id is a temporary identifier made by handleAdd
IsTempId(id) == id.k = "string" /\ id.s # <<>> /\ Head(id.s) = "temp-"

\* The list without the tasks of the given id
Others(list, id) == SelectSeq(list, LAMBDA t : t.id # id)

\* What the list and the service hold, per task: id, title and completed
Shown(list) ==
    {[id |-> list[r].id, title |-> list[r].title, completed |-> list[r].completed] :
        r \in 1..Len(list)}
Held(data) ==
    {[id |-> data[k].id, title |-> Str(data[k].title), completed |-> data[k].completed] :
        k \in {j \in 1..Len(data) : ~Nullish(data[j].id)}}

\* C14: when the remote call of a Delete fails (a Delete that took its snapshot of the
\* current list), restoring the snapshot changes the list only by putting the deleted task
\* back: every other task of the list is after the rollback as it was just before it, so
\* no change made by another operation since the Delete started is discarded.
C14_RollbackKeepsOtherChanges ==
    [][(ev'.type = "deleteDone" /\ ev'.outcome # "resolved" /\ ~ev'.aborted
        /\ ev'.fresh) =>
          Others(todos', ev'.id) = Others(todos, ev'.id)]_vars

\* C15: once an Add whose create call failed and the Refresh it triggered have finished,
\* whether that Refresh succeeded or failed, the list holds no task with that Add's
\* temporary identifier.
C15_PlaceholderGoneAfterFailedAdd ==
    (ev.type = "refreshDone" /\ ev.did /\ ~ev.aborted) =>
        \A r \in 1..Len(todos) : todos[r].id # ev.id

\* C16: a task id is in the in-flight set exactly when a Toggle, Edit or Delete on that id
\* has started and not yet finished; when two of them on the same id overlap the id is
\* in the set until the last one finishes.
C16_InFlightIffUnfinished ==
    \A id \in savingIds \cup {calls[i].todoId : i \in 1..Len(calls)} :
        id \in savingIds <=>
            \E i \in 1..Len(calls) :
                calls[i].op \in {"toggle", "edit", "delete"} /\ calls[i].todoId = id

\* C17: when no remote call is pending and every call so far succeeded with a well-formed
\* payload, the list and the remote service hold the same tasks: the same ids, with the
\* same title and completed value per id.
C17_ListEqualsServiceWhenIdle ==
    (calls = <<>> /\ clean) => Shown(todos) = Held(server)

\* C18: no two tasks of the list share an id, also when two Adds take the same clock value
\* for their temporary identifier.
C18_NoTwoTasksShareAnId ==
    \A r1, r2 \in 1..Len(todos) : r1 # r2 => todos[r1].id # todos[r2].id

\* C19: no update or delete request is sent with a temporary identifier.
C19_NoRequestWithTemporaryId ==
    \A i \in 1..Len(calls) :
        calls[i].req \in {"update", "delete"} => ~IsTempId(calls[i].todoId)

\* C20: when the update call of an Edit on task A succeeds while edit mode is open on a
\* different task B, the editing id and the edited title of B stay as they are; when the
\* update call of an Edit fails, the editing id and the edited title stay as they are.
C20_EditExitsOnlyItsOwnTask ==
    [][(ev'.type = "updateDone" /\ ev'.op = "edit" /\ ~ev'.aborted /\ ev'.fresh
        /\ (ev'.outcome # "resolved" \/ editingId # ev'.id)) =>
          UNCHANGED <<editingId, editingTitle>>]_vars

====
